---- MODULE Spec2Model ----
(***************************************************************************)
(* Model of the merge engine of books-curator (src/merge_datasets.py,      *)
(* class DatasetMerger): text normalisation, the similarity score, the     *)
(* fuzzy gate, identity resolution and the four per-source merge phases.   *)
(*                                                                         *)
(* Encoding.  A Python str that the code inspects character by character   *)
(* (titles, authors, book ids) is a sequence of one-character strings.     *)
(* A str that the code only compares and measures (ISBNs, publisher,       *)
(* categories, dates) is a TLA+ string.  An optional value is None == <<>> *)
(* or Some(v) == <<v>>.  A source record is a TLA+ record; a key that the  *)
(* JSON object lacks is absent from its DOMAIN (see Get).  A float score   *)
(* is the exact fraction <<numerator, denominator>>.                       *)
(***************************************************************************)
EXTENDS Integers, Sequences, FiniteSets, TLC

VARIABLES
    pc,             \* position of run() in the pipeline
    todo,           \* records of the current phase not yet iterated over
    merged_books,   \* self.merged_books: ordered <<[book_id, data]>>
    stats,          \* self.stats
    unmatched_data, \* self.unmatched_data
    output,         \* what save_merged_data and generate_report emitted
    serial,         \* history: creation number of each entry of merged_books
    processed,      \* history: one entry per source record iterated over
    op, args, ret   \* a call of one of the pure functions and its result

vars == <<pc, todo, merged_books, stats, unmatched_data, output,
          serial, processed, op, args, ret>>

(***************************************************************************)
(* Optional values and dictionaries                                        *)
(***************************************************************************)
None == <<>>

Some(v) == <<v>>

\* dict.get(key, default)
Get(d, key, default) == IF key \in DOMAIN d THEN d[key] ELSE default

\* Python truth value of an optional number / an optional string
TruthyNum(o) == o # None /\ o[1] # 0

TruthyStr(o) == o # None /\ o[1] # ""

Range(s) == {s[i] : i \in DOMAIN s}

Min(a, b) == IF a <= b THEN a ELSE b

(***************************************************************************)
(* Characters                                                              *)
(***************************************************************************)
LowerCase == <<"a","b","c","d","e","f","g","h","i","j","k","l","m",
               "n","o","p","q","r","s","t","u","v","w","x","y","z">>

UpperCase == <<"A","B","C","D","E","F","G","H","I","J","K","L","M",
               "N","O","P","Q","R","S","T","U","V","W","X","Y","Z">>

Digits == {"0","1","2","3","4","5","6","7","8","9"}

AlnumChars == Range(LowerCase) \cup Range(UpperCase) \cup Digits

SpaceChars == {" ", "\t"}

\* str.isalnum() and str.isspace() on the characters of the model's alphabet
IsAlnum(c) == c \in AlnumChars

IsSpace(c) == c \in SpaceChars

\* str.lower()
ToLower == [c \in Range(UpperCase) |->
                LowerCase[CHOOSE i \in DOMAIN UpperCase : UpperCase[i] = c]]

LowerChar(c) == IF c \in DOMAIN ToLower THEN ToLower[c] ELSE c

Lower(s) == [i \in DOMAIN s |-> LowerChar(s[i])]

\* str.strip()
RECURSIVE LStrip(_)
LStrip(s) == IF s # <<>> /\ IsSpace(Head(s)) THEN LStrip(Tail(s)) ELSE s

RECURSIVE RStrip(_)
RStrip(s) ==
    IF s # <<>> /\ IsSpace(s[Len(s)]) THEN RStrip(SubSeq(s, 1, Len(s) - 1)) ELSE s

Strip(s) == RStrip(LStrip(s))

\* str.startswith(prefix)
StartsWith(s, prefix) ==
    Len(s) >= Len(prefix) /\ SubSeq(s, 1, Len(prefix)) = prefix

\* one iteration of the article loop: "if text.startswith(article): text = text[len(article):]"
StripArticle(s, article) ==
    IF StartsWith(s, article) THEN SubSeq(s, Len(article) + 1, Len(s)) ELSE s

Articles == << <<"t","h","e"," ">>, <<"a"," ">>, <<"a","n"," ">> >>

\* the for loop over ['the ', 'a ', 'an ']: each article is tried once, in order
RECURSIVE StripArticles(_, _)
StripArticles(s, n) ==
    IF n > Len(Articles) THEN s ELSE StripArticles(StripArticle(s, Articles[n]), n + 1)

\* ''.join(c if c.isalnum() or c.isspace() else '' for c in text)
IsKept(c) == IsAlnum(c) \/ IsSpace(c)

KeepAlnumSpace(s) == SelectSeq(s, IsKept)

\* ' '.join(text.split())
RECURSIVE WordLen(_)
WordLen(s) == IF s = <<>> \/ IsSpace(Head(s)) THEN 0 ELSE 1 + WordLen(Tail(s))

RECURSIVE JoinSplit(_)
JoinSplit(s) ==
    LET t == LStrip(s)
        n == WordLen(t)
        rest == LStrip(SubSeq(t, n + 1, Len(t)))
    IN  IF t = <<>> THEN <<>>
        ELSE IF rest = <<>> THEN SubSeq(t, 1, n)
        ELSE SubSeq(t, 1, n) \o <<" ">> \o JoinSplit(rest)

normalize_text(text) ==
    IF text = <<>> THEN <<>>
    ELSE JoinSplit(KeepAlnumSpace(StripArticles(Strip(Lower(text)), 1)))

(***************************************************************************)
(* Similarity: difflib.SequenceMatcher(None, a, b).ratio().  Positions are *)
(* 1-based and ranges inclusive.  The strings of the model are far shorter *)
(* than the 200 elements at which difflib's autojunk heuristic starts.     *)
(***************************************************************************)
RECURSIVE CommonLen(_, _, _, _, _, _)
CommonLen(a, b, i, j, ahi, bhi) ==
    IF i > ahi \/ j > bhi THEN 0
    ELSE IF a[i] # b[j] THEN 0
    ELSE 1 + CommonLen(a, b, i + 1, j + 1, ahi, bhi)

\* the largest and the smallest of a non-empty set of numbers
Largest(ns) == CHOOSE n \in ns : \A m \in ns : m <= n

Smallest(ns) == CHOOSE n \in ns : \A m \in ns : n <= m

\* of the blocks of length k, the one that starts at i in a and earliest in b
EarliestInB(size, k, i) ==
    <<i, Smallest({p[2] : p \in {q \in DOMAIN size : q[1] = i /\ size[q] = k}}), k>>

\* of the blocks of length k, the one that starts earliest in a
EarliestInA(size, k, alo, blo) ==
    IF k = 0 THEN <<alo, blo, 0>>
    ELSE EarliestInB(size, k, Smallest({p[1] : p \in {q \in DOMAIN size : size[q] = k}}))

\* size[<<i, j>>] is the length of the common block that starts at a[i], b[j]
LongestBlock(size, alo, blo) ==
    IF DOMAIN size = {} THEN <<alo, blo, 0>>
    ELSE EarliestInA(size, Largest({size[p] : p \in DOMAIN size}), alo, blo)

\* SequenceMatcher.find_longest_match: the longest common block of
\* a[alo..ahi] and b[blo..bhi]; of the longest, the one that starts earliest
\* in a and, of those, earliest in b.  Returns <<i, j, size>>, and
\* <<alo, blo, 0>> where nothing matches.
find_longest_match(a, b, alo, ahi, blo, bhi) ==
    LongestBlock([p \in (alo..ahi) \X (blo..bhi) |->
                     CommonLen(a, b, p[1], p[2], ahi, bhi)], alo, blo)

\* SequenceMatcher.get_matching_blocks, summed: the number of matched
\* characters; m is the longest block of the two ranges, and the search goes
\* on to its left and to its right
RECURSIVE matching_total(_, _, _, _, _, _)
RECURSIVE MatchedAround(_, _, _, _, _, _, _)
MatchedAround(a, b, alo, ahi, blo, bhi, m) ==
    IF m[3] = 0 THEN 0
    ELSE m[3]
         + matching_total(a, b, alo, m[1] - 1, blo, m[2] - 1)
         + matching_total(a, b, m[1] + m[3], ahi, m[2] + m[3], bhi)

matching_total(a, b, alo, ahi, blo, bhi) ==
    MatchedAround(a, b, alo, ahi, blo, bhi,
                  find_longest_match(a, b, alo, ahi, blo, bhi))

\* mutant: the test for an empty argument is left out; the ratio of two empty
\* strings is 1.0
calculate_similarity_unguarded(str1, str2) ==
    IF str1 = <<>> /\ str2 = <<>> THEN <<1, 1>>
    ELSE <<2 * matching_total(str1, str2, 1, Len(str1), 1, Len(str2)),
           Len(str1) + Len(str2)>>

\* the score 2.0*M/T as the fraction <<2*M, T>>; 0.0 is <<0, 1>>
calculate_similarity(str1, str2) ==
    IF str1 = <<>> \/ str2 = <<>> THEN <<0, 1>>
    ELSE <<2 * matching_total(str1, str2, 1, Len(str1), 1, Len(str2)),
           Len(str1) + Len(str2)>>

\* the default threshold 0.85, in hundredths
Threshold == 85

\* similarity >= threshold, for a threshold given in hundredths
AtLeast(similarity, threshold) == similarity[1] * 100 >= threshold * similarity[2]

\* mutant: either similarity reaching the threshold is enough
fuzzy_match_either(title1, author1, title2, author2, threshold) ==
    \/ AtLeast(calculate_similarity(normalize_text(title1), normalize_text(title2)),
               threshold)
    \/ AtLeast(calculate_similarity(normalize_text(author1), normalize_text(author2)),
               threshold)

fuzzy_match(title1, author1, title2, author2, threshold) ==
    LET norm_title1 == normalize_text(title1)
        norm_title2 == normalize_text(title2)
        norm_author1 == normalize_text(author1)
        norm_author2 == normalize_text(author2)
        title_similarity == calculate_similarity(norm_title1, norm_title2)
        author_similarity == calculate_similarity(norm_author1, norm_author2)
    IN  AtLeast(title_similarity, threshold) /\ AtLeast(author_similarity, threshold)

\* the slice [:100] of generate_book_id
IdLength == 100

\* str.replace(' ', '_')
SpacesToUnderscores(s) == [i \in DOMAIN s |-> IF s[i] = " " THEN "_" ELSE s[i]]

generate_book_id(title, author) ==
    LET norm_title == normalize_text(title)
        norm_author == normalize_text(author)
        id == SpacesToUnderscores(norm_title \o <<"_">> \o norm_author)
    IN  SubSeq(id, 1, Min(IdLength, Len(id)))


(***************************************************************************)
(* The canonical collection.  self.merged_books is a Python dict, which    *)
(* iterates in insertion order; assigning to a key that is already there   *)
(* replaces the value and keeps the key's position.                        *)
(***************************************************************************)
Sources == <<"awards", "google_books", "openlibrary", "nyt_bestsellers">>

\* position of a key in the dict, 0 if it is not a key
IndexOf(book_id) ==
    IF \E i \in DOMAIN merged_books : merged_books[i].book_id = book_id
    THEN CHOOSE i \in DOMAIN merged_books : merged_books[i].book_id = book_id
    ELSE 0

\* self.merged_books[book_id]
Book(book_id) == merged_books[IndexOf(book_id)].data

\* self.merged_books[book_id] = book
SetBook(book_id, book) ==
    IF IndexOf(book_id) # 0
    THEN [merged_books EXCEPT ![IndexOf(book_id)] = [book_id |-> book_id, data |-> book]]
    ELSE Append(merged_books, [book_id |-> book_id, data |-> book])

\* the first of the given positions in iteration order; 0 if there is none
FirstIndex(hits) == IF hits = {} THEN 0 ELSE Smallest(hits)

\* mutant helper: the last of the given positions
LastIndex(hits) == IF hits = {} THEN 0 ELSE Largest(hits)

\* "return book_id" inside the scan, "return None" after it
IdAt(i) == IF i = 0 THEN None ELSE merged_books[i].book_id

\* mutant: only the first ISBN of each record is compared
find_book_by_first_isbn(isbn) ==
    IF ~TruthyStr(isbn) \/ isbn = Some("N/A") THEN None
    ELSE IdAt(FirstIndex({k \in DOMAIN merged_books :
                             /\ merged_books[k].data.isbn_all # <<>>
                             /\ isbn[1] = merged_books[k].data.isbn_all[1]}))

\* returns the book id, or None (the empty value) when nothing is found
find_book_by_isbn(isbn) ==
    IF ~TruthyStr(isbn) \/ isbn = Some("N/A") THEN None
    ELSE IdAt(FirstIndex({k \in DOMAIN merged_books :
                             isbn[1] \in Range(merged_books[k].data.isbn_all)}))

\* mutant: the stored title and author are passed in the wrong order
find_book_by_fuzzy_match_swapped(title, author) ==
    IdAt(FirstIndex({k \in DOMAIN merged_books :
                        fuzzy_match(title, author,
                                    merged_books[k].data.author,
                                    merged_books[k].data.title, Threshold)}))

\* mutant: the scan keeps going and returns the last record that matches
find_book_by_last_fuzzy_match(title, author) ==
    IdAt(LastIndex({k \in DOMAIN merged_books :
                       fuzzy_match(title, author,
                                   merged_books[k].data.title,
                                   merged_books[k].data.author, Threshold)}))

find_book_by_fuzzy_match(title, author) ==
    IdAt(FirstIndex({k \in DOMAIN merged_books :
                        fuzzy_match(title, author,
                                    merged_books[k].data.title,
                                    merged_books[k].data.author, Threshold)}))

create_base_book_entry(title, author, year) ==
    [title |-> title, author |-> author, year |-> year,
     isbn_all |-> <<>>, isbn_13 |-> None, isbn_10 |-> None,
     identifiers |-> <<>>,
     awards |-> <<>>, award_count |-> 0,
     won_award |-> FALSE, shortlisted |-> FALSE,
     ratings_average |-> None, ratings_count |-> 0,
     want_to_read_count |-> 0, currently_reading_count |-> 0,
     already_read_count |-> 0,
     bestseller_appearances |-> 0, total_weeks_on_bestseller |-> 0,
     highest_rank |-> None, bestseller_dates |-> <<>>,
     publisher |-> None, page_count |-> None, categories |-> <<>>,
     description |-> None, language |-> None,
     sources |-> <<>>]

\* the two ISBN lengths add_isbn_to_book tells apart
Isbn13Length == 13

Isbn10Length == 10

\* mutant: a later identifier of the same length replaces the primary one
add_isbn_to_book_latest_primary(book_data, isbn) ==
    IF TruthyStr(isbn) /\ isbn # Some("N/A") /\ isbn[1] \notin Range(book_data.isbn_all)
    THEN LET added == [book_data EXCEPT !.isbn_all = Append(@, isbn[1])]
         IN  IF Len(isbn[1]) = Isbn13Length
             THEN [added EXCEPT !.isbn_13 = isbn]
             ELSE IF Len(isbn[1]) = Isbn10Length
             THEN [added EXCEPT !.isbn_10 = isbn]
             ELSE added
    ELSE book_data

\* mutant: the "N/A" marker is stored like any identifier
add_isbn_to_book_any_marker(book_data, isbn) ==
    IF TruthyStr(isbn) /\ isbn[1] \notin Range(book_data.isbn_all)
    THEN LET added == [book_data EXCEPT !.isbn_all = Append(@, isbn[1])]
         IN  IF Len(isbn[1]) = Isbn13Length /\ ~TruthyStr(book_data.isbn_13)
             THEN [added EXCEPT !.isbn_13 = isbn]
             ELSE IF Len(isbn[1]) = Isbn10Length /\ ~TruthyStr(book_data.isbn_10)
             THEN [added EXCEPT !.isbn_10 = isbn]
             ELSE added
    ELSE book_data

add_isbn_to_book(book_data, isbn) ==
    IF TruthyStr(isbn) /\ isbn # Some("N/A") /\ isbn[1] \notin Range(book_data.isbn_all)
    THEN LET added == [book_data EXCEPT !.isbn_all = Append(@, isbn[1])]
         IN  IF Len(isbn[1]) = Isbn13Length /\ ~TruthyStr(book_data.isbn_13)
             THEN [added EXCEPT !.isbn_13 = isbn]
             ELSE IF Len(isbn[1]) = Isbn10Length /\ ~TruthyStr(book_data.isbn_10)
             THEN [added EXCEPT !.isbn_10 = isbn]
             ELSE added
    ELSE book_data

\* mutant: the element is appended without the membership test
AppendAlways(list, x) == Append(list, x)

\* "if name not in book['sources']: book['sources'].append(name)", and the
\* same idiom for categories and bestseller dates
AppendNew(list, x) == IF x \in Range(list) THEN list ELSE Append(list, x)

RECURSIVE AppendAllNew(_, _)
AppendAllNew(list, xs) ==
    IF xs = <<>> THEN list ELSE AppendAllNew(AppendNew(list, Head(xs)), Tail(xs))

\* ', '.join(authors)
RECURSIVE JoinAuthors(_)
JoinAuthors(authors) ==
    IF authors = <<>> THEN <<>>
    ELSE IF Len(authors) = 1 THEN authors[1]
    ELSE authors[1] \o <<",", " ">> \o JoinAuthors(Tail(authors))

(***************************************************************************)
(* Input.  The records the four input files may contain.  Two titles and   *)
(* three authors that are pairwise close (ratio 6/7 = 0.857 between a      *)
(* 3-letter and a 4-letter string, 0.75 between the two 4-letter authors), *)
(* one unrelated title, and the degenerate values the upstream fetchers    *)
(* write: no title, no author, "N/A" ISBNs, page_count 0, rank 0.          *)
(***************************************************************************)
MaxRecords == 3

TitleAbcd == <<"A","b","c","d">>

TitleAbc == <<"a","b","c","!">>

TitleOther == <<"T","h","e"," ","Q">>

AuthorXyzw == <<"x","y","z","w">>

AuthorXyzv == <<"x","y","z","v">>

AuthorXyz == <<"X","y","z">>

AuthorDash == <<"-">>

NoText == <<>>

IsbnA13 == "9780000000017"

IsbnB13 == "9780000000024"

IsbnA10 == "0000000019"

IsbnB10 == "0000000027"

IsbnOdd == "12345"

AwardEntries ==
    { [Title |-> TitleAbcd, Author |-> AuthorXyzw, Year |-> 2020,
       Award |-> "Booker Prize", Status |-> "Winner", Publisher |-> Some("Knopf")],
      [Title |-> TitleAbc, Author |-> AuthorXyzv, Year |-> 2021,
       Award |-> "National Book Award", Status |-> "Finalist"],
      [Title |-> TitleAbc, Author |-> AuthorXyz, Year |-> 2022,
       Award |-> "Booker Prize", Status |-> "Shortlist"],
      [Title |-> TitleAbcd, Author |-> AuthorXyzw, Year |-> 2025,
       Award |-> "Pulitzer Prize", Status |-> "Longlist"],
      [Title |-> TitleAbc, Author |-> AuthorXyz, Year |-> 2019,
       Award |-> "Pulitzer Prize", Status |-> "Winner"],
      [Title |-> TitleAbcd, Author |-> AuthorDash, Year |-> 2020,
       Award |-> "Booker Prize", Status |-> "Winner"],
      [Title |-> NoText, Author |-> AuthorXyzw, Year |-> 2020,
       Award |-> "Booker Prize", Status |-> "Winner"],
      [Title |-> TitleAbcd, Author |-> NoText, Year |-> 2020,
       Award |-> "Booker Prize", Status |-> "Finalist"] }

\* award records whose "Year" is the JSON null
NullYearAwardEntries ==
    { [Title |-> TitleAbcd, Author |-> AuthorXyzw, Year |-> None,
       Award |-> "Booker Prize", Status |-> "Winner"] }

GoogleEntries ==
    { [title |-> TitleAbcd, authors |-> <<AuthorXyzw>>,
       isbn_13 |-> Some(IsbnA13), isbn_10 |-> Some(IsbnA10),
       publisher |-> Some("Knopf"), page_count |-> Some(0), language |-> Some("en"),
       categories |-> <<"Fiction">>, year |-> Some(2020), google_books_id |-> Some("g1")],
      [title |-> TitleAbc, authors |-> <<AuthorXyzv>>,
       isbn_13 |-> None, isbn_10 |-> Some(IsbnB10),
       publisher |-> Some(""), page_count |-> Some(320), language |-> None,
       categories |-> <<"Fiction", "Drama">>, year |-> None, google_books_id |-> Some("g2")],
      [title |-> TitleAbc, authors |-> <<AuthorXyzv>>,
       isbn_13 |-> Some(IsbnA13), isbn_10 |-> Some(IsbnB10),
       publisher |-> Some("Penguin"), page_count |-> Some(250), language |-> Some("fr"),
       categories |-> <<"Drama", "Drama">>, year |-> Some(2021), google_books_id |-> Some("g3")],
      [title |-> TitleOther, authors |-> <<>>,
       isbn_13 |-> None, isbn_10 |-> Some(IsbnA10),
       publisher |-> Some("N/A"), page_count |-> Some(0), language |-> Some("en"),
       categories |-> <<>>, year |-> Some(2022), google_books_id |-> Some("g4")],
      [title |-> TitleAbcd, authors |-> <<>>,
       isbn_13 |-> None, isbn_10 |-> None,
       publisher |-> None, page_count |-> Some(100), language |-> Some("en"),
       year |-> Some(2023), google_books_id |-> Some("g5")],
      [title |-> NoText, authors |-> <<AuthorXyzw>>,
       isbn_13 |-> Some(IsbnA13), isbn_10 |-> None,
       publisher |-> Some("Knopf"), page_count |-> Some(100), language |-> Some("en"),
       categories |-> <<"Fiction">>, year |-> Some(2020), google_books_id |-> Some("g6")] }

OpenLibraryEntries ==
    { [title |-> TitleAbcd, authors |-> <<AuthorXyzw>>, isbn |-> <<IsbnA13>>,
       ratings_average |-> Some(4), ratings_count |-> 100, want_to_read_count |-> 7,
       currently_reading_count |-> 2, already_read_count |-> 5,
       year |-> Some(2020), openlibrary_key |-> Some("/works/OL1W")],
      [title |-> TitleAbcd, authors |-> <<AuthorXyzw>>, isbn |-> <<IsbnB10, IsbnA13, IsbnB13>>,
       ratings_average |-> Some(3), ratings_count |-> 250, want_to_read_count |-> 1,
       currently_reading_count |-> 3, already_read_count |-> 9,
       year |-> Some(2021), openlibrary_key |-> Some("/works/OL2W")],
      [title |-> TitleAbc, authors |-> <<AuthorXyz>>, isbn |-> <<"N/A", "">>,
       year |-> None, openlibrary_key |-> Some("/works/OL3W")],
      [title |-> TitleAbc, authors |-> <<>>, isbn |-> <<IsbnOdd>>,
       ratings_average |-> None, ratings_count |-> 2, want_to_read_count |-> 0,
       currently_reading_count |-> 0, already_read_count |-> 0,
       year |-> Some(2022), openlibrary_key |-> Some("/works/OL4W")],
      [authors |-> <<AuthorXyzw>>, isbn |-> <<IsbnA13>>,
       ratings_average |-> Some(5), ratings_count |-> 1, want_to_read_count |-> 1,
       currently_reading_count |-> 1, already_read_count |-> 1,
       year |-> Some(2020), openlibrary_key |-> Some("/works/OL5W")] }

NytEntries ==
    { [title |-> TitleAbcd, author |-> AuthorXyzw,
       primary_isbn13 |-> Some(IsbnA13), primary_isbn10 |-> Some("N/A"),
       rank |-> Some(3), weeks_on_list |-> 3, bestseller_date |-> Some("2023-01-01")],
      [title |-> TitleAbcd, author |-> AuthorXyzw,
       primary_isbn13 |-> Some("N/A"), primary_isbn10 |-> Some("N/A"),
       rank |-> Some(1), weeks_on_list |-> 5, bestseller_date |-> Some("2023-01-08")],
      [title |-> TitleAbc, author |-> AuthorXyz,
       primary_isbn13 |-> None, primary_isbn10 |-> Some(IsbnB10),
       rank |-> Some(0), bestseller_date |-> Some("2023-01-01")],
      [title |-> TitleAbc, author |-> NoText,
       primary_isbn13 |-> Some("N/A"), primary_isbn10 |-> Some("N/A"),
       weeks_on_list |-> 2, bestseller_date |-> Some("2023-01-08")],
      [title |-> NoText, author |-> AuthorXyzw,
       primary_isbn13 |-> Some(IsbnA13), primary_isbn10 |-> Some(IsbnA10),
       rank |-> Some(2), weeks_on_list |-> 1, bestseller_date |-> Some("2023-01-01")] }

(***************************************************************************)
(* State after DatasetMerger.__init__                                      *)
(***************************************************************************)
NoCounts == [total |-> 0, matched |-> 0, unmatched |-> 0]

MergerInit ==
    /\ pc = "start"
    /\ todo = 0
    /\ merged_books = <<>>
    /\ stats = [awards |-> NoCounts, google_books |-> NoCounts,
                openlibrary |-> NoCounts, nyt_bestsellers |-> NoCounts,
                merged |-> [total |-> 0]]
    /\ unmatched_data = [awards |-> <<>>, google_books |-> <<>>,
                         openlibrary |-> <<>>, nyt_bestsellers |-> <<>>]
    /\ output = [merged_file |-> None, unmatched_files |-> <<>>, report |-> None]
    /\ serial = <<>>
    /\ processed = <<>>

Init ==
    /\ MergerInit
    /\ op = "idle"
    /\ args = <<>>
    /\ ret = None

(***************************************************************************)
(* run(): the four phases in order.  A phase starts by loading its file(s) *)
(* and recording the number of entries; a load that raises ends the run.   *)
(***************************************************************************)
\* the phase that follows the loop a finished phase was in
AfterPhase == [start |-> "awards", awards |-> "google_books",
               google_books |-> "openlibrary", openlibrary |-> "nyt_bestsellers"]

\* mutant: the next phase may start while entries are left
AtPhaseEndEarly == pc \in DOMAIN AfterPhase

AtPhaseEnd == pc \in DOMAIN AfterPhase /\ todo = 0

\* load_json returns a file of n entries; self.stats[source]['total'] = len(...)
LoadPhase(n) ==
    /\ AtPhaseEnd
    /\ pc' = AfterPhase[pc]
    /\ todo' = n
    /\ stats' = [stats EXCEPT ![AfterPhase[pc]].total = n]
    /\ UNCHANGED <<merged_books, unmatched_data, output, serial, processed, op, args, ret>>

\* open() or json.load() raises in load_json; nothing in run() catches it
LoadFails ==
    /\ AtPhaseEnd
    /\ pc' = "failed"
    /\ UNCHANGED <<todo, merged_books, stats, unmatched_data, output, serial,
                   processed, op, args, ret>>

\* "if not book_id: book_id = ...": the second value is computed only when
\* the first is None
OrElse(first, second) == IF first # None THEN first ELSE second

\* which step of the resolution produced the book id
How(by_isbn, by_fuzzy) ==
    IF by_isbn # None THEN "isbn" ELSE IF by_fuzzy # None THEN "fuzzy" ELSE "created"

\* "book = self.merged_books[book_id]": the entry that was found, or the base
\* entry just stored under the generated id
BookOrNew(found, book_id, base_entry) ==
    IF found # None THEN Book(book_id) ELSE base_entry

\* history: what became of the source record just iterated over
Outcome(source, entry, how, book_id) ==
    [source |-> source, entry |-> entry, how |-> how, book_id |-> book_id,
     serial |-> IF how \in {"filtered", "skipped"} THEN 0
                ELSE IF how = "created" THEN Len(processed) + 1
                ELSE serial[IndexOf(book_id)]]

\* a record that leaves the collection as it is
PassOver(source, entry, how) ==
    /\ todo' = todo - 1
    /\ processed' = Append(processed, Outcome(source, entry, how, None))
    /\ UNCHANGED <<pc, merged_books, output, serial, op, args, ret>>

\* a record resolved to book_id (how = "isbn" or "fuzzy") or given a new
\* entry under book_id (how = "created"); book is the entry after the merge
Resolve(source, entry, how, book_id, book) ==
    /\ todo' = todo - 1
    /\ merged_books' = SetBook(book_id, book)
    /\ serial' = IF how # "created" THEN serial
                 ELSE IF IndexOf(book_id) # 0
                 THEN [serial EXCEPT ![IndexOf(book_id)] = Len(processed) + 1]
                 ELSE Append(serial, Len(processed) + 1)
    /\ processed' = Append(processed, Outcome(source, entry, how, book_id))
    /\ UNCHANGED <<pc, output, op, args, ret>>

(***************************************************************************)
(* merge_awards_data: one iteration of the loop over the award entries     *)
(***************************************************************************)
FirstYear == 2020

LastYear == 2025

\* mutant: an award entry that is already in the list is not added again
AwardMergedOnce(book, award_entry) ==
    LET year == IF "Year" \in DOMAIN award_entry THEN Some(award_entry.Year) ELSE None
        status == Get(award_entry, "Status", "")
        item == [award |-> Get(award_entry, "Award", ""), year |-> year,
                 status |-> status, publisher |-> Get(award_entry, "Publisher", None)]
    IN  [book EXCEPT
            !.awards = AppendNew(@, item),
            !.award_count = IF item \in Range(book.awards) THEN @ ELSE @ + 1,
            !.won_award = IF status = "Winner" THEN TRUE ELSE @,
            !.shortlisted = IF status \in {"Shortlist", "Finalist"} THEN TRUE ELSE @,
            !.sources = AppendNew(@, "awards")]

\* mutant: the flags follow the status of the latest entry
AwardMergedFlagsReset(book, award_entry) ==
    LET year == IF "Year" \in DOMAIN award_entry THEN Some(award_entry.Year) ELSE None
        status == Get(award_entry, "Status", "")
    IN  [book EXCEPT
            !.awards = Append(@, [award |-> Get(award_entry, "Award", ""),
                                  year |-> year,
                                  status |-> status,
                                  publisher |-> Get(award_entry, "Publisher", None)]),
            !.award_count = @ + 1,
            !.won_award = (status = "Winner"),
            !.shortlisted = (status \in {"Shortlist", "Finalist"}),
            !.sources = AppendNew(@, "awards")]

\* mutant: a Longlist entry counts as shortlisted
AwardMergedLonglisted(book, award_entry) ==
    LET year == IF "Year" \in DOMAIN award_entry THEN Some(award_entry.Year) ELSE None
        status == Get(award_entry, "Status", "")
    IN  [book EXCEPT
            !.awards = Append(@, [award |-> Get(award_entry, "Award", ""),
                                  year |-> year,
                                  status |-> status,
                                  publisher |-> Get(award_entry, "Publisher", None)]),
            !.award_count = @ + 1,
            !.won_award = IF status = "Winner" THEN TRUE ELSE @,
            !.shortlisted = IF status \in {"Shortlist", "Finalist", "Longlist"}
                            THEN TRUE ELSE @,
            !.sources = AppendNew(@, "awards")]

\* lines 216-230: what an award entry adds to the book it resolved to
AwardMerged(book, award_entry) ==
    LET year == IF "Year" \in DOMAIN award_entry THEN Some(award_entry.Year) ELSE None
        status == Get(award_entry, "Status", "")
    IN  [book EXCEPT
            !.awards = Append(@, [award |-> Get(award_entry, "Award", ""),
                                  year |-> year,
                                  status |-> status,
                                  publisher |-> Get(award_entry, "Publisher", None)]),
            !.award_count = @ + 1,
            !.won_award = IF status = "Winner" THEN TRUE ELSE @,
            !.shortlisted = IF status \in {"Shortlist", "Finalist"} THEN TRUE ELSE @,
            !.sources = AppendNew(@, "awards")]

MergeAward(award_entry) ==
    LET title == Get(award_entry, "Title", NoText)
        author == Get(award_entry, "Author", NoText)
        year == IF "Year" \in DOMAIN award_entry THEN Some(award_entry.Year) ELSE None
    IN  /\ pc = "awards"
        /\ todo > 0
        /\ IF ~(FirstYear <= Get(award_entry, "Year", 0)
                /\ Get(award_entry, "Year", 0) <= LastYear)
           THEN /\ PassOver("awards", award_entry, "filtered")
                /\ UNCHANGED <<stats, unmatched_data>>
           ELSE IF title = NoText \/ author = NoText
           THEN /\ PassOver("awards", award_entry, "skipped")
                /\ UNCHANGED <<stats, unmatched_data>>
           ELSE /\ \E by_fuzzy \in {find_book_by_fuzzy_match(title, author)} :
                   \E book_id \in {OrElse(by_fuzzy, generate_book_id(title, author))} :
                       Resolve("awards", award_entry, How(None, by_fuzzy), book_id,
                               AwardMerged(
                                   BookOrNew(by_fuzzy, book_id,
                                             create_base_book_entry(title, author, year)),
                                   award_entry))
                /\ stats' = [stats EXCEPT !.awards.matched = @ + 1]
                /\ UNCHANGED unmatched_data

\* line 194: the filter runs over all award entries before the first of them
\* is processed; a.get('Year', 0) returns None for a null "Year" and
\* "2020 <= None" raises TypeError, which nothing in run() catches
FilterAwardsRaises(award_entry) ==
    /\ pc = "awards"
    /\ todo > 0
    /\ todo = stats.awards.total
    /\ award_entry.Year = None
    /\ pc' = "raised"
    /\ UNCHANGED <<todo, merged_books, stats, unmatched_data, output, serial,
                   processed, op, args, ret>>

(***************************************************************************)
(* The three catalogue phases share their bookkeeping: a record without a  *)
(* title goes to the unmatched list; a resolved record counts as matched;  *)
(* a record that gets a new entry is also appended to the unmatched list   *)
(* and counts as unmatched.                                                *)
(***************************************************************************)
Unusable(source, entry) ==
    /\ PassOver(source, entry, "skipped")
    /\ unmatched_data' = [unmatched_data EXCEPT ![source] = Append(@, entry)]
    /\ UNCHANGED stats

Merge(source, entry, how, book_id, book) ==
    /\ Resolve(source, entry, how, book_id, book)
    /\ IF how = "created"
       THEN /\ unmatched_data' = [unmatched_data EXCEPT ![source] = Append(@, entry)]
            /\ stats' = [stats EXCEPT ![source].unmatched = @ + 1]
       ELSE /\ stats' = [stats EXCEPT ![source].matched = @ + 1]
            /\ UNCHANGED unmatched_data


(***************************************************************************)
(* merge_google_books_data: one iteration of the loop                      *)
(***************************************************************************)
\* mutant: the publisher is overwritten by every record
GoogleMergedLastWins(book, book_entry) ==
    LET with_isbns == add_isbn_to_book(
                          add_isbn_to_book(book, Get(book_entry, "isbn_13", None)),
                          Get(book_entry, "isbn_10", None))
    IN  [with_isbns EXCEPT
            !.publisher = Get(book_entry, "publisher", None),
            !.page_count = IF ~TruthyNum(@) THEN Get(book_entry, "page_count", None) ELSE @,
            !.language = IF ~TruthyStr(@) THEN Get(book_entry, "language", None) ELSE @,
            !.description = IF ~TruthyStr(@) THEN None ELSE @,
            !.categories = AppendAllNew(@, Get(book_entry, "categories", <<>>)),
            !.identifiers = ("google_books_id" :> Get(book_entry, "google_books_id", None)) @@ @,
            !.sources = AppendNew(@, "google_books")]

\* lines 284-305
GoogleMerged(book, book_entry) ==
    LET with_isbns == add_isbn_to_book(
                          add_isbn_to_book(book, Get(book_entry, "isbn_13", None)),
                          Get(book_entry, "isbn_10", None))
    IN  [with_isbns EXCEPT
            !.publisher = IF ~TruthyStr(@) THEN Get(book_entry, "publisher", None) ELSE @,
            !.page_count = IF ~TruthyNum(@) THEN Get(book_entry, "page_count", None) ELSE @,
            !.language = IF ~TruthyStr(@) THEN Get(book_entry, "language", None) ELSE @,
            !.description = IF ~TruthyStr(@) THEN None ELSE @,
            !.categories = AppendAllNew(@, Get(book_entry, "categories", <<>>)),
            !.identifiers = ("google_books_id" :> Get(book_entry, "google_books_id", None)) @@ @,
            !.sources = AppendNew(@, "google_books")]

MergeGoogleBook(book_entry) ==
    LET title == Get(book_entry, "title", NoText)
        authors == Get(book_entry, "authors", <<>>)
        author == IF authors # <<>> THEN JoinAuthors(authors) ELSE NoText
        isbn_13 == Get(book_entry, "isbn_13", None)
        isbn_10 == Get(book_entry, "isbn_10", None)
    IN  /\ pc = "google_books"
        /\ todo > 0
        /\ IF title = NoText
           THEN Unusable("google_books", book_entry)
           ELSE \E by_isbn \in {OrElse(
                        IF TruthyStr(isbn_13) THEN find_book_by_isbn(isbn_13) ELSE None,
                        IF TruthyStr(isbn_10) THEN find_book_by_isbn(isbn_10) ELSE None)} :
                \E by_fuzzy \in {IF by_isbn = None /\ author # NoText
                                  THEN find_book_by_fuzzy_match(title, author)
                                  ELSE None} :
                \E found \in {OrElse(by_isbn, by_fuzzy)} :
                \E book_id \in {OrElse(found, generate_book_id(title, author))} :
                    Merge("google_books", book_entry, How(by_isbn, by_fuzzy), book_id,
                          GoogleMerged(
                              BookOrNew(found, book_id,
                                        create_base_book_entry(
                                            title, author,
                                            Get(book_entry, "year", None))),
                              book_entry))

(***************************************************************************)
(* merge_openlibrary_data: one iteration of the loop                       *)
(***************************************************************************)
\* the loop "for isbn in isbns: book_id = find_book_by_isbn(isbn); if book_id: break"
RECURSIVE FindByIsbns(_)
FindByIsbns(isbns) ==
    IF isbns = <<>> THEN None
    ELSE OrElse(find_book_by_isbn(Some(Head(isbns))), FindByIsbns(Tail(isbns)))

\* the loop "for isbn in isbns: self.add_isbn_to_book(book, isbn)"
RECURSIVE AddIsbns(_, _)
AddIsbns(book, isbns) ==
    IF isbns = <<>> THEN book
    ELSE AddIsbns(add_isbn_to_book(book, Some(Head(isbns))), Tail(isbns))

\* mutant: the ratings count keeps the larger value
OpenLibraryMergedMax(book, book_entry) ==
    [AddIsbns(book, Get(book_entry, "isbn", <<>>)) EXCEPT
        !.ratings_average = Get(book_entry, "ratings_average", None),
        !.ratings_count = IF Get(book_entry, "ratings_count", 0) > @
                          THEN Get(book_entry, "ratings_count", 0) ELSE @,
        !.want_to_read_count = Get(book_entry, "want_to_read_count", 0),
        !.currently_reading_count = Get(book_entry, "currently_reading_count", 0),
        !.already_read_count = Get(book_entry, "already_read_count", 0),
        !.identifiers = ("openlibrary_key" :> Get(book_entry, "openlibrary_key", None)) @@ @,
        !.sources = AppendNew(@, "openlibrary")]

\* lines 357-370
OpenLibraryMerged(book, book_entry) ==
    [AddIsbns(book, Get(book_entry, "isbn", <<>>)) EXCEPT
        !.ratings_average = Get(book_entry, "ratings_average", None),
        !.ratings_count = Get(book_entry, "ratings_count", 0),
        !.want_to_read_count = Get(book_entry, "want_to_read_count", 0),
        !.currently_reading_count = Get(book_entry, "currently_reading_count", 0),
        !.already_read_count = Get(book_entry, "already_read_count", 0),
        !.identifiers = ("openlibrary_key" :> Get(book_entry, "openlibrary_key", None)) @@ @,
        !.sources = AppendNew(@, "openlibrary")]

MergeOpenLibraryBook(book_entry) ==
    LET title == Get(book_entry, "title", NoText)
        authors == Get(book_entry, "authors", <<>>)
        author == IF authors # <<>> THEN JoinAuthors(authors) ELSE NoText
    IN  /\ pc = "openlibrary"
        /\ todo > 0
        /\ IF title = NoText
           THEN Unusable("openlibrary", book_entry)
           ELSE \E by_isbn \in {FindByIsbns(Get(book_entry, "isbn", <<>>))} :
                \E by_fuzzy \in {IF by_isbn = None /\ author # NoText
                                  THEN find_book_by_fuzzy_match(title, author)
                                  ELSE None} :
                \E found \in {OrElse(by_isbn, by_fuzzy)} :
                \E book_id \in {OrElse(found, generate_book_id(title, author))} :
                    Merge("openlibrary", book_entry, How(by_isbn, by_fuzzy), book_id,
                          OpenLibraryMerged(
                              BookOrNew(found, book_id,
                                        create_base_book_entry(
                                            title, author,
                                            Get(book_entry, "year", None))),
                              book_entry))

(***************************************************************************)
(* merge_nyt_bestsellers_data: one iteration of the loop                   *)
(***************************************************************************)
\* mutant: the source name is appended without looking at the list
NytMergedSourceRepeated(book, book_entry) ==
    LET with_isbns == add_isbn_to_book(
                          add_isbn_to_book(book, Get(book_entry, "primary_isbn13", None)),
                          Get(book_entry, "primary_isbn10", None))
        weeks == Get(book_entry, "weeks_on_list", 0)
        rank == Get(book_entry, "rank", None)
        bestseller_date == Get(book_entry, "bestseller_date", None)
    IN  [with_isbns EXCEPT
            !.bestseller_appearances = @ + 1,
            !.total_weeks_on_bestseller = @ + weeks,
            !.highest_rank = IF TruthyNum(rank) /\ (@ = None \/ rank[1] < @[1])
                             THEN rank ELSE @,
            !.bestseller_dates = IF TruthyStr(bestseller_date)
                                 THEN AppendNew(@, bestseller_date[1]) ELSE @,
            !.sources = Append(@, "nyt_bestsellers")]

\* mutant: the weeks are overwritten instead of added
NytMergedWeeksOverwritten(book, book_entry) ==
    LET with_isbns == add_isbn_to_book(
                          add_isbn_to_book(book, Get(book_entry, "primary_isbn13", None)),
                          Get(book_entry, "primary_isbn10", None))
        weeks == Get(book_entry, "weeks_on_list", 0)
        rank == Get(book_entry, "rank", None)
        bestseller_date == Get(book_entry, "bestseller_date", None)
    IN  [with_isbns EXCEPT
            !.bestseller_appearances = @ + 1,
            !.total_weeks_on_bestseller = weeks,
            !.highest_rank = IF TruthyNum(rank) /\ (@ = None \/ rank[1] < @[1])
                             THEN rank ELSE @,
            !.bestseller_dates = IF TruthyStr(bestseller_date)
                                 THEN AppendNew(@, bestseller_date[1]) ELSE @,
            !.sources = AppendNew(@, "nyt_bestsellers")]

\* mutant: the rank comparison is the wrong way round
NytMergedWorstRank(book, book_entry) ==
    LET with_isbns == add_isbn_to_book(
                          add_isbn_to_book(book, Get(book_entry, "primary_isbn13", None)),
                          Get(book_entry, "primary_isbn10", None))
        weeks == Get(book_entry, "weeks_on_list", 0)
        rank == Get(book_entry, "rank", None)
        bestseller_date == Get(book_entry, "bestseller_date", None)
    IN  [with_isbns EXCEPT
            !.bestseller_appearances = @ + 1,
            !.total_weeks_on_bestseller = @ + weeks,
            !.highest_rank = IF TruthyNum(rank) /\ (@ = None \/ rank[1] > @[1])
                             THEN rank ELSE @,
            !.bestseller_dates = IF TruthyStr(bestseller_date)
                                 THEN AppendNew(@, bestseller_date[1]) ELSE @,
            !.sources = AppendNew(@, "nyt_bestsellers")]

\* lines 421-439
NytMerged(book, book_entry) ==
    LET with_isbns == add_isbn_to_book(
                          add_isbn_to_book(book, Get(book_entry, "primary_isbn13", None)),
                          Get(book_entry, "primary_isbn10", None))
        weeks == Get(book_entry, "weeks_on_list", 0)
        rank == Get(book_entry, "rank", None)
        bestseller_date == Get(book_entry, "bestseller_date", None)
    IN  [with_isbns EXCEPT
            !.bestseller_appearances = @ + 1,
            !.total_weeks_on_bestseller = @ + weeks,
            !.highest_rank = IF TruthyNum(rank) /\ (@ = None \/ rank[1] < @[1])
                             THEN rank ELSE @,
            !.bestseller_dates = IF TruthyStr(bestseller_date)
                                 THEN AppendNew(@, bestseller_date[1]) ELSE @,
            !.sources = AppendNew(@, "nyt_bestsellers")]

MergeNytBook(book_entry) ==
    LET title == Get(book_entry, "title", NoText)
        author == Get(book_entry, "author", NoText)
        isbn_13 == Get(book_entry, "primary_isbn13", None)
        isbn_10 == Get(book_entry, "primary_isbn10", None)
    IN  /\ pc = "nyt_bestsellers"
        /\ todo > 0
        /\ IF title = NoText
           THEN Unusable("nyt_bestsellers", book_entry)
           ELSE \E by_isbn \in {OrElse(
                        IF TruthyStr(isbn_13) /\ isbn_13 # Some("N/A")
                        THEN find_book_by_isbn(isbn_13) ELSE None,
                        IF TruthyStr(isbn_10) /\ isbn_10 # Some("N/A")
                        THEN find_book_by_isbn(isbn_10) ELSE None)} :
                \E by_fuzzy \in {IF by_isbn = None /\ author # NoText
                                  THEN find_book_by_fuzzy_match(title, author)
                                  ELSE None} :
                \E found \in {OrElse(by_isbn, by_fuzzy)} :
                \E book_id \in {OrElse(found, generate_book_id(title, author))} :
                    Merge("nyt_bestsellers", book_entry, How(by_isbn, by_fuzzy), book_id,
                          NytMerged(
                              BookOrNew(found, book_id,
                                        create_base_book_entry(title, author, None)),
                              book_entry))

(***************************************************************************)
(* save_merged_data and generate_report                                    *)
(***************************************************************************)
\* self.merged_books.values()
Values == [i \in DOMAIN merged_books |-> merged_books[i].data]

\* mutant: the results are saved although a load has failed
SaveMergedDataAfterFailure ==
    /\ pc \in {"nyt_bestsellers", "failed"}
    /\ todo = 0
    /\ pc' = "saved"
    /\ stats' = [stats EXCEPT !.merged.total = Len(merged_books)]
    /\ output' = [output EXCEPT
            !.merged_file = Some([total_books |-> Len(merged_books),
                                  books |-> Values]),
            !.unmatched_files =
                [source \in {x \in Range(Sources) : unmatched_data[x] # <<>>} |->
                    [total_unmatched |-> Len(unmatched_data[source]),
                     entries |-> unmatched_data[source]]]]
    /\ UNCHANGED <<todo, merged_books, unmatched_data, serial, processed, op, args, ret>>

SaveMergedData ==
    /\ pc = "nyt_bestsellers"
    /\ todo = 0
    /\ pc' = "saved"
    /\ stats' = [stats EXCEPT !.merged.total = Len(merged_books)]
    /\ output' = [output EXCEPT
            !.merged_file = Some([total_books |-> Len(merged_books),
                                  books |-> Values]),
            !.unmatched_files =
                [source \in {x \in Range(Sources) : unmatched_data[x] # <<>>} |->
                    [total_unmatched |-> Len(unmatched_data[source]),
                     entries |-> unmatched_data[source]]]]
    /\ UNCHANGED <<todo, merged_books, unmatched_data, serial, processed, op, args, ret>>

\* sum(1 for b in self.merged_books.values() if ...), given the values that count
CountBooks(flags) == Cardinality({i \in DOMAIN flags : flags[i]})

\* f"{(matched / total * 100):.1f}%" in tenths of a percent, "0%" as 0; the
\* rounding of an exact half does not arise for totals below 16
MatchRate(matched, total) ==
    IF total > 0 THEN (2000 * matched + total) \div (2 * total) ELSE 0

SourceReport(source) ==
    [total_entries |-> stats[source].total,
     matched |-> stats[source].matched,
     unmatched |-> stats[source].unmatched,
     match_rate |-> MatchRate(stats[source].matched, stats[source].total)]

HasAwards(b) == b.award_count > 0

HasReception(b) == b.ratings_count > 0

OnBestsellerList(b) == b.bestseller_appearances > 0

HasMultipleSources(b) == Len(b.sources) > 1

HasPrimaryIsbn(b) == TruthyStr(b.isbn_13) \/ TruthyStr(b.isbn_10)

HasRatings(b) == b.ratings_average # None

WonAward(b) == b.won_award

GenerateReport ==
    /\ pc = "saved"
    /\ pc' = "done"
    /\ output' = [output EXCEPT !.report = Some(
            [source_datasets |-> [source \in Range(Sources) |-> SourceReport(source)],
             merged_dataset |->
                [total_unique_books |-> stats.merged.total,
                 books_with_awards |-> CountBooks([i \in DOMAIN Values |-> HasAwards(Values[i])]),
                 books_with_reception_data |-> CountBooks([i \in DOMAIN Values |-> HasReception(Values[i])]),
                 books_on_bestseller_list |-> CountBooks([i \in DOMAIN Values |-> OnBestsellerList(Values[i])]),
                 books_with_multiple_sources |-> CountBooks([i \in DOMAIN Values |-> HasMultipleSources(Values[i])])],
             data_quality |->
                [books_with_isbn |-> CountBooks([i \in DOMAIN Values |-> HasPrimaryIsbn(Values[i])]),
                 books_with_ratings |-> CountBooks([i \in DOMAIN Values |-> HasRatings(Values[i])]),
                 award_winning_books |-> CountBooks([i \in DOMAIN Values |-> WonAward(Values[i])]),
                 bestsellers |-> CountBooks([i \in DOMAIN Values |-> OnBestsellerList(Values[i])])]])]
    /\ UNCHANGED <<todo, merged_books, stats, unmatched_data, serial, processed,
                   op, args, ret>>

(***************************************************************************)
(* The run                                                                 *)
(***************************************************************************)
Next ==
    \/ \E n \in 0..(MaxRecords - Len(processed)) : LoadPhase(n)
    \/ LoadFails
    \/ \E award_entry \in NullYearAwardEntries : FilterAwardsRaises(award_entry)
    \/ \E award_entry \in AwardEntries : MergeAward(award_entry)
    \/ \E book_entry \in GoogleEntries : MergeGoogleBook(book_entry)
    \/ \E book_entry \in OpenLibraryEntries : MergeOpenLibraryBook(book_entry)
    \/ \E book_entry \in NytEntries : MergeNytBook(book_entry)
    \/ SaveMergedData
    \/ GenerateReport

Spec == Init /\ [][Next]_vars

(***************************************************************************)
(* The pure functions, called on their own: fuzzy_match on every           *)
(* combination of the titles and authors below, default threshold.         *)
(***************************************************************************)
Pachinko == <<"P","a","c","h","i","n","k","o">>

MinJinLee == <<"M","i","n"," ","J","i","n"," ","L","e","e">>

JamesLee == <<"J","a","m","e","s"," ","L","e","e">>

Punctuation == <<"!","?">>

FuzzyTitles == {Pachinko, TitleAbcd, TitleAbc, Punctuation, NoText}

FuzzyAuthors == {MinJinLee, JamesLee, AuthorXyzw, AuthorXyz, AuthorDash, NoText}

InitFuzzy ==
    /\ MergerInit
    /\ op = "fuzzy_match"
    /\ args \in FuzzyTitles \X FuzzyAuthors \X FuzzyTitles \X FuzzyAuthors
    /\ ret = None

CallFuzzyMatch ==
    /\ op = "fuzzy_match"
    /\ ret = None
    /\ ret' = Some(fuzzy_match(args[1], args[2], args[3], args[4], Threshold))
    /\ UNCHANGED <<pc, todo, merged_books, stats, unmatched_data, output,
                   serial, processed, op, args>>

NextFuzzy == CallFuzzyMatch

SpecFuzzy == InitFuzzy /\ [][NextFuzzy]_vars

(***************************************************************************)
(* normalize_text called on its own, and called again on its own result.   *)
(* The texts are the concatenations of up to MaxTokens of the tokens       *)
(* below: articles in both cases, punctuation, space and words.  args      *)
(* holds the arguments of the calls made so far, ret the latest result.    *)
(***************************************************************************)
MaxTokens == 3

Tokens ==
    { <<"T","h","e"," ">>, <<"t","h","e"," ">>, <<"A"," ">>, <<"A","n"," ">>,
      <<"-">>, <<" ">>, <<"R","o","a","d">>, <<"r","o","a","d">>,
      <<"T","e","a","m">>, <<"X">> }

RECURSIVE Concat(_)
Concat(words) ==
    IF words = <<>> THEN <<>> ELSE Head(words) \o Concat(Tail(words))

NormalizeInputs ==
    {Concat(words) : words \in UNION {[1..n -> Tokens] : n \in 0..MaxTokens}}

InitNormalize ==
    /\ MergerInit
    /\ op = "normalize_text"
    /\ args \in {<<text>> : text \in NormalizeInputs}
    /\ ret = None

\* normalize_text(text)
CallNormalizeText ==
    /\ op = "normalize_text"
    /\ ret = None
    /\ ret' = Some(normalize_text(args[1]))
    /\ UNCHANGED <<pc, todo, merged_books, stats, unmatched_data, output,
                   serial, processed, op, args>>

\* normalize_text(normalize_text(text)): the result is passed in again
CallNormalizeTextAgain ==
    /\ op = "normalize_text"
    /\ ret # None
    /\ Len(args) = 1
    /\ args' = Append(args, ret[1])
    /\ ret' = Some(normalize_text(ret[1]))
    /\ UNCHANGED <<pc, todo, merged_books, stats, unmatched_data, output,
                   serial, processed, op>>

NextNormalize == CallNormalizeText \/ CallNormalizeTextAgain

SpecNormalize == InitNormalize /\ [][NextNormalize]_vars

(***************************************************************************)
(* calculate_similarity called on its own, on every pair of strings of up  *)
(* to MaxLen letters, and called again with the arguments exchanged.  ret  *)
(* holds the results of the calls made so far.                             *)
(***************************************************************************)
MaxLen == 3

Letters == {"a", "b", "c"}

SimilarityInputs == UNION {[1..n -> Letters] : n \in 0..MaxLen}

InitSimilarity ==
    /\ MergerInit
    /\ op = "calculate_similarity"
    /\ args \in SimilarityInputs \X SimilarityInputs
    /\ ret = None

\* calculate_similarity(str1, str2)
CallCalculateSimilarity ==
    /\ op = "calculate_similarity"
    /\ ret = None
    /\ ret' = Some(calculate_similarity(args[1], args[2]))
    /\ UNCHANGED <<pc, todo, merged_books, stats, unmatched_data, output,
                   serial, processed, op, args>>

\* calculate_similarity(str2, str1)
CallCalculateSimilaritySwapped ==
    /\ op = "calculate_similarity"
    /\ Len(ret) = 1
    /\ ret' = Append(ret, calculate_similarity(args[2], args[1]))
    /\ UNCHANGED <<pc, todo, merged_books, stats, unmatched_data, output,
                   serial, processed, op, args>>

NextSimilarity == CallCalculateSimilarity \/ CallCalculateSimilaritySwapped

SpecSimilarity == InitSimilarity /\ [][NextSimilarity]_vars

(***************************************************************************)
(* Vocabulary of the properties.  A canonical record is an entry of        *)
(* merged_books from its creation until it is replaced; serial numbers     *)
(* tell the entries apart.  The operators below take the collection as a   *)
(* parameter so that they can be read in the state before a step.          *)
(***************************************************************************)
CatalogSources == {"google_books", "openlibrary", "nyt_bestsellers"}

\* a source record has just been iterated over
Stepped == Len(processed') = Len(processed) + 1

Latest == processed[Len(processed)]

TitleOf(r) == Get(r.entry, IF r.source = "awards" THEN "Title" ELSE "title", NoText)

AuthorOf(r) ==
    IF r.source = "awards" THEN Get(r.entry, "Author", NoText)
    ELSE IF r.source = "nyt_bestsellers" THEN Get(r.entry, "author", NoText)
    ELSE JoinAuthors(Get(r.entry, "authors", <<>>))

Present(o) == IF o = None THEN <<>> ELSE <<o[1]>>

\* the identifiers a source record carries, in the source's order of preference
CarriedIsbns(r) ==
    IF r.source = "google_books"
    THEN Present(Get(r.entry, "isbn_13", None)) \o Present(Get(r.entry, "isbn_10", None))
    ELSE IF r.source = "nyt_bestsellers"
    THEN Present(Get(r.entry, "primary_isbn13", None))
         \o Present(Get(r.entry, "primary_isbn10", None))
    ELSE IF r.source = "openlibrary" THEN Get(r.entry, "isbn", <<>>)
    ELSE <<>>

Holders(books, isbn) == {i \in DOMAIN books : isbn \in Range(books[i].data.isbn_all)}

HeldIsbns(books, r) ==
    SelectSeq(CarriedIsbns(r), LAMBDA isbn : Holders(books, isbn) # {})

PassingGate(books, r) ==
    {i \in DOMAIN books :
        fuzzy_match(TitleOf(r), AuthorOf(r), books[i].data.title, books[i].data.author,
                    Threshold)}

\* the step merged record r into the canonical record at position i: nothing
\* was created or replaced, no other record changed, and record i now lists
\* the source
MergedInto(r, i) ==
    /\ serial' = serial
    /\ DOMAIN merged_books' = DOMAIN merged_books
    /\ \A j \in DOMAIN merged_books : j # i => merged_books'[j] = merged_books[j]
    /\ merged_books'[i].book_id = merged_books[i].book_id
    /\ r.source \in Range(merged_books'[i].data.sources)
    /\ r.book_id = merged_books[i].book_id

\* the step created a canonical record for r
CreatedFor(r) ==
    /\ \E j \in DOMAIN serial' :
          /\ serial'[j] = Len(processed')
          /\ merged_books'[j].book_id = r.book_id
          /\ merged_books'[j].data.sources = <<r.source>>
    /\ Len(processed') \notin Range(serial)

\* the canonical records of a collection that took part in the processing of
\* the given positions of the history
MergedCount(source, number) ==
    Cardinality({k \in DOMAIN processed :
                    processed[k].source = source /\ processed[k].serial = number})

(***************************************************************************)
(* C1  Identifier precedence.  When a catalog-A, catalog-B or bestseller   *)
(* record with a usable title carries an ISBN that some canonical record   *)
(* already holds, the record is merged into a holder of the first such     *)
(* ISBN in the source's order of preference (ISBN-13 before ISBN-10, list  *)
(* order for catalog-B), whatever the titles and authors look like and     *)
(* whichever records pass the fuzzy gate.                                  *)
(***************************************************************************)
IdentifierPrecedence ==
    [][Stepped =>
        LET r == processed'[Len(processed')]
            held == HeldIsbns(merged_books, r)
        IN  (r.source \in CatalogSources /\ TitleOf(r) # NoText /\ held # <<>>)
            => \E i \in Holders(merged_books, held[1]) : MergedInto(r, i)]_vars

\* a record was merged by ISBN into a record that fails the fuzzy gate against
\* it while another canonical record passes the gate
IdentifierPrecedenceWitness ==
    /\ processed # <<>>
    /\ Latest.how = "isbn"
    /\ IndexOf(Latest.book_id) \notin PassingGate(merged_books, Latest)
    /\ PassingGate(merged_books, Latest) # {}

(***************************************************************************)
(* C2  Canonical records are never deleted: every step keeps every         *)
(* canonical record in the collection, with everything accumulated on it,  *)
(* and creating a record never replaces an existing one; book ids are      *)
(* unique.                                                                 *)
(***************************************************************************)
IsPrefix(s, t) == Len(s) <= Len(t) /\ SubSeq(t, 1, Len(s)) = s

Keeps(old, new) ==
    /\ new.title = old.title
    /\ new.author = old.author
    /\ IsPrefix(old.awards, new.awards)
    /\ IsPrefix(old.isbn_all, new.isbn_all)
    /\ IsPrefix(old.sources, new.sources)
    /\ new.award_count >= old.award_count
    /\ new.bestseller_appearances >= old.bestseller_appearances

UniqueIds ==
    \A i, j \in DOMAIN merged_books :
        merged_books[i].book_id = merged_books[j].book_id => i = j

NeverDeleted ==
    [][/\ \A i \in DOMAIN merged_books :
             \E j \in DOMAIN merged_books' :
                /\ serial'[j] = serial[i]
                /\ merged_books'[j].book_id = merged_books[i].book_id
                /\ Keeps(merged_books[i].data, merged_books'[j].data)
       /\ UniqueIds']_vars

(***************************************************************************)
(* C3  Resolution order.  A catalog-A, catalog-B or bestseller record with *)
(* a usable title gets a new canonical record only if no canonical record  *)
(* holds any of its identifiers and none passes the fuzzy gate; otherwise  *)
(* it is merged into an existing canonical record.                         *)
(***************************************************************************)
ResolutionOrder ==
    [][Stepped =>
        LET r == processed'[Len(processed')]
            unknown == /\ HeldIsbns(merged_books, r) = <<>>
                       /\ PassingGate(merged_books, r) = {}
        IN  (r.source \in CatalogSources /\ TitleOf(r) # NoText)
            => IF unknown THEN CreatedFor(r)
               ELSE \E i \in DOMAIN merged_books : MergedInto(r, i)]_vars

\* a record that carries no known identifier was merged through the fuzzy gate
ResolutionOrderWitness ==
    /\ processed # <<>>
    /\ Latest.source \in CatalogSources
    /\ Latest.how = "fuzzy"
    /\ CarriedIsbns(Latest) # <<>>
    /\ \E k \in DOMAIN processed :
          processed[k].source \in CatalogSources /\ processed[k].how = "created"

(***************************************************************************)
(* C4  First match wins.  When no identifier of a record is held and       *)
(* canonical records pass the fuzzy gate against it, the record is merged  *)
(* into the one that comes first in the collection's order, whatever the   *)
(* scores of the others.                                                   *)
(***************************************************************************)
FirstMatchWins ==
    [][Stepped =>
        LET r == processed'[Len(processed')]
            passing == PassingGate(merged_books, r)
        IN  (/\ r.how \notin {"filtered", "skipped"}
             /\ HeldIsbns(merged_books, r) = <<>>
             /\ passing # {})
            => \E i \in passing : /\ \A j \in passing : i <= j
                                  /\ MergedInto(r, i)]_vars

\* the score a > the score b, as fractions
Exceeds(a, b) == a[1] * b[2] > b[1] * a[2]

TitleScore(r, i) ==
    calculate_similarity(normalize_text(TitleOf(r)),
                         normalize_text(merged_books[i].data.title))

\* the record went to the first of two passing records although the second
\* one's title is the closer one
FirstMatchWinsWitness ==
    /\ processed # <<>>
    /\ Latest.how = "fuzzy"
    /\ \E j \in PassingGate(merged_books, Latest) :
          /\ IndexOf(Latest.book_id) < j
          /\ Exceeds(TitleScore(Latest, j), TitleScore(Latest, IndexOf(Latest.book_id)))

(***************************************************************************)
(* C5  The fuzzy gate is conjunctive.  fuzzy_match with the default        *)
(* threshold is true exactly when the similarity of the normalized titles  *)
(* is at least 0.85 and the similarity of the normalized authors is at     *)
(* least 0.85; "Pachinko"/"Min Jin Lee" against "Pachinko"/"James Lee" is  *)
(* false.  As claimed, identical non-empty title and author match; as      *)
(* amended, identical title and author match when both still have a        *)
(* letter or digit after normalization.                                    *)
(***************************************************************************)
Called == op = "fuzzy_match" /\ ret # None

TitlesClose ==
    AtLeast(calculate_similarity(normalize_text(args[1]), normalize_text(args[3])), 85)

AuthorsClose ==
    AtLeast(calculate_similarity(normalize_text(args[2]), normalize_text(args[4])), 85)

GateIsConjunction ==
    /\ ret[1] <=> (TitlesClose /\ AuthorsClose)
    /\ args = <<Pachinko, MinJinLee, Pachinko, JamesLee>> => ret[1] = FALSE
    /\ args = <<Pachinko, MinJinLee, Pachinko, MinJinLee>> => ret[1] = TRUE

\* the claim as stated
FuzzyGateAsClaimed ==
    Called =>
        /\ GateIsConjunction
        /\ (args[1] = args[3] /\ args[2] = args[4] /\ args[1] # NoText /\ args[2] # NoText)
           => ret[1] = TRUE

\* the claim as amended
FuzzyGate ==
    Called =>
        /\ GateIsConjunction
        /\ (/\ args[1] = args[3] /\ args[2] = args[4]
            /\ normalize_text(args[1]) # NoText /\ normalize_text(args[2]) # NoText)
           => ret[1] = TRUE

\* identical titles, authors that share a surname only: no match
FuzzyGateWitness ==
    /\ Called
    /\ args = <<Pachinko, MinJinLee, Pachinko, JamesLee>>
    /\ TitlesClose /\ ~AuthorsClose
    /\ ret[1] = FALSE

MergedAt(source, number) ==
    {k \in DOMAIN processed :
        processed[k].source = source /\ processed[k].serial = number}

LastOf(positions) == CHOOSE k \in positions : \A l \in positions : l <= k

ReceptionLastWrite ==
    \A i \in DOMAIN merged_books :
        MergedAt("openlibrary", serial[i]) # {} =>
            LET last == processed[LastOf(MergedAt("openlibrary", serial[i]))].entry
                book == merged_books[i].data
            IN  /\ book.ratings_average =
                      IF "ratings_average" \in DOMAIN last THEN last.ratings_average ELSE None
                /\ book.ratings_count =
                      IF "ratings_count" \in DOMAIN last THEN last.ratings_count ELSE 0
                /\ book.want_to_read_count =
                      IF "want_to_read_count" \in DOMAIN last
                      THEN last.want_to_read_count ELSE 0
                /\ book.currently_reading_count =
                      IF "currently_reading_count" \in DOMAIN last
                      THEN last.currently_reading_count ELSE 0
                /\ book.already_read_count =
                      IF "already_read_count" \in DOMAIN last
                      THEN last.already_read_count ELSE 0

\* two catalog-B records on one book, the later one with the smaller (or no)
\* ratings count, which is the one the book shows
ReceptionLastWriteWitness ==
    \E i \in DOMAIN merged_books :
        \E k, l \in MergedAt("openlibrary", serial[i]) :
            /\ k < l
            /\ l = LastOf(MergedAt("openlibrary", serial[i]))
            /\ "ratings_count" \in DOMAIN processed[k].entry
            /\ Get(processed[l].entry, "ratings_count", 0) < processed[k].entry.ratings_count
            /\ merged_books[i].data.ratings_count = Get(processed[l].entry, "ratings_count", 0)

(***************************************************************************)
(* C8  Bestseller counters accumulate.  On every canonical record,         *)
(* bestseller_appearances is the number of bestseller records merged into  *)
(* it (the creating one included) and total_weeks_on_bestseller the sum of *)
(* their weeks_on_list; neither ever decreases.                            *)
(***************************************************************************)
RECURSIVE WeeksOver(_)
WeeksOver(positions) ==
    IF positions = {} THEN 0
    ELSE LET k == CHOOSE x \in positions : TRUE
         IN  Get(processed[k].entry, "weeks_on_list", 0) + WeeksOver(positions \ {k})

BestsellerTotals ==
    \A i \in DOMAIN merged_books :
        /\ merged_books[i].data.bestseller_appearances
               = Cardinality(MergedAt("nyt_bestsellers", serial[i]))
        /\ merged_books[i].data.total_weeks_on_bestseller
               = WeeksOver(MergedAt("nyt_bestsellers", serial[i]))

BestsellerNeverDecreases ==
    \A i \in DOMAIN merged_books : \A j \in DOMAIN merged_books' :
        serial'[j] = serial[i] =>
            /\ merged_books'[j].data.bestseller_appearances
                   >= merged_books[i].data.bestseller_appearances
            /\ merged_books'[j].data.total_weeks_on_bestseller
                   >= merged_books[i].data.total_weeks_on_bestseller

RanksSeen(number) ==
    {processed[k].entry.rank[1] :
        k \in {l \in MergedAt("nyt_bestsellers", number) :
                  Get(processed[l].entry, "rank", None) # None}}


HighestRankIs(Counted(_)) ==
    \A i \in DOMAIN merged_books :
        LET ranks == {n \in RanksSeen(serial[i]) : Counted(n)}
        IN  merged_books[i].data.highest_rank =
                IF ranks = {} THEN None ELSE Some(Smallest(ranks))

AnyRank(n) == TRUE

NonZeroRank(n) == n # 0

HighestRankNeverIncreases ==
    \A i \in DOMAIN merged_books : \A j \in DOMAIN merged_books' :
        (serial'[j] = serial[i] /\ merged_books[i].data.highest_rank # None) =>
            /\ merged_books'[j].data.highest_rank # None
            /\ merged_books'[j].data.highest_rank[1] <= merged_books[i].data.highest_rank[1]

NonNull(o) == o # None

MetadataStays(SetStr(_), SetNum(_)) ==
    \A i \in DOMAIN merged_books : \A j \in DOMAIN merged_books' :
        serial'[j] = serial[i] =>
            LET old == merged_books[i].data
                new == merged_books'[j].data
            IN  /\ SetStr(old.publisher) => new.publisher = old.publisher
                /\ SetNum(old.page_count) => new.page_count = old.page_count
                /\ SetStr(old.language) => new.language = old.language

YearOf(r) ==
    IF r.source = "awards"
    THEN IF "Year" \in DOMAIN r.entry THEN Some(r.entry.Year) ELSE None
    ELSE IF r.source \in {"google_books", "openlibrary"}
    THEN Get(r.entry, "year", None)
    ELSE None

\* positions of the history at which a record of any source went to the
\* canonical record with the given serial number
AllMergedAt(number) == {k \in DOMAIN processed : processed[k].serial = number}

WithYear(number) == {k \in AllMergedAt(number) : YearOf(processed[k]) # None}

YearFirstNonNull ==
    \A i \in DOMAIN merged_books :
        merged_books[i].data.year =
            IF WithYear(serial[i]) = {} THEN None
            ELSE YearOf(processed[Smallest(WithYear(serial[i]))])

(***************************************************************************)
(* C12  Primary ISBNs are first-seen.  In every state the primary isbn_13  *)
(* of a canonical record is null or the first 13-character identifier of   *)
(* its isbn_all (identifiers are appended, so the first in the list is the *)
(* first added), the primary isbn_10 is null or the first 10-character     *)
(* one, and a primary that is set is an element of isbn_all; once set, a   *)
(* primary never changes.                                                  *)
(***************************************************************************)
OfLength(isbns, n) == SelectSeq(isbns, LAMBDA isbn : Len(isbn) = n)

NullOrFirst(primary, isbns, n) ==
    \/ primary = None
    \/ /\ OfLength(isbns, n) # <<>>
       /\ primary = Some(OfLength(isbns, n)[1])
       /\ primary[1] \in Range(isbns)

PrimaryIsFirstSeen ==
    \A i \in DOMAIN merged_books :
        /\ NullOrFirst(merged_books[i].data.isbn_13, merged_books[i].data.isbn_all,
                       Isbn13Length)
        /\ NullOrFirst(merged_books[i].data.isbn_10, merged_books[i].data.isbn_all,
                       Isbn10Length)

PrimaryNeverChanges ==
    \A i \in DOMAIN merged_books : \A j \in DOMAIN merged_books' :
        serial'[j] = serial[i] =>
            /\ merged_books[i].data.isbn_13 # None =>
                   merged_books'[j].data.isbn_13 = merged_books[i].data.isbn_13
            /\ merged_books[i].data.isbn_10 # None =>
                   merged_books'[j].data.isbn_10 = merged_books[i].data.isbn_10

Statuses(book) == {book.awards[k].status : k \in DOMAIN book.awards}

AwardFlagsDerived ==
    \A i \in DOMAIN merged_books :
        LET book == merged_books[i].data
        IN  /\ book.won_award <=> "Winner" \in Statuses(book)
            /\ book.shortlisted <=> Statuses(book) \cap {"Shortlist", "Finalist"} # {}

\* a book with a Longlist entry only and neither flag, next to a book that won
AwardFlagsDerivedWitness ==
    /\ \E i \in DOMAIN merged_books :
          /\ Statuses(merged_books[i].data) = {"Longlist"}
          /\ ~merged_books[i].data.won_award
          /\ ~merged_books[i].data.shortlisted
    /\ \E i \in DOMAIN merged_books :
          /\ Statuses(merged_books[i].data) = {"Winner"}
          /\ merged_books[i].data.won_award
          /\ ~merged_books[i].data.shortlisted

(***************************************************************************)
(* C14  Award flags are monotone.  On every canonical record, once         *)
(* won_award (respectively shortlisted) is true it is true after every     *)
(* later step of the run: the rest of the award phase, the catalog phases, *)
(* the bestseller phase, saving and reporting.                             *)
(***************************************************************************)
FlagsStay ==
    \A i \in DOMAIN merged_books : \A j \in DOMAIN merged_books' :
        serial'[j] = serial[i] =>
            /\ merged_books[i].data.won_award => merged_books'[j].data.won_award
            /\ merged_books[i].data.shortlisted => merged_books'[j].data.shortlisted

PhaseIndex(source) == CHOOSE n \in DOMAIN Sources : Sources[n] = source

ProcessedBefore(source, k) ==
    Cardinality({l \in 1..(k - 1) : processed[l].source = source})

StrictPhaseOrder ==
    \A k \in DOMAIN processed :
        /\ \A l \in DOMAIN processed :
              k < l => PhaseIndex(processed[k].source) <= PhaseIndex(processed[l].source)
        /\ \A n \in DOMAIN Sources :
              n < PhaseIndex(processed[k].source) =>
                  ProcessedBefore(Sources[n], k) = stats[Sources[n]].total

\* two award records, then a bestseller record
StrictPhaseOrderWitness ==
    /\ Len(processed) = 3
    /\ processed[1].source = "awards"
    /\ processed[2].source = "awards"
    /\ processed[3].source = "nyt_bestsellers"
    /\ stats.awards.total = 2

(***************************************************************************)
(* C17  Missing-field routing.  As claimed: for each of the four sources,  *)
(* a source record without a title (for awards also one without an author) *)
(* is appended to the unmatched collection of its source, creates and      *)
(* changes no canonical record, and the loop goes on to the next record.   *)
(***************************************************************************)
LacksField(r) ==
    \/ TitleOf(r) = NoText
    \/ r.source = "awards" /\ AuthorOf(r) = NoText

\* the step just taken routed its record, if the record is of one of the
\* given sources and lacks a field
RoutedWhenUnusable(sources) ==
    Stepped =>
        LET r == processed'[Len(processed')]
        IN  (r.source \in sources /\ LacksField(r)) =>
                /\ unmatched_data' =
                       [unmatched_data EXCEPT ![r.source] = Append(@, r.entry)]
                /\ merged_books' = merged_books
                /\ pc' = pc
                /\ todo' = todo - 1

MissingFieldRouting == [][RoutedWhenUnusable(Range(Sources))]_vars

(***************************************************************************)
(* C18  A missing input file is fatal.  When a load fails, in whichever    *)
(* phase, the run is over: no step follows, so no later phase runs, and    *)
(* neither the merged collection nor the unmatched files nor the report    *)
(* are written; a merged collection is written only by a run that loaded   *)
(* all four sources.                                                       *)
(***************************************************************************)
NothingEmitted ==
    /\ output.merged_file = None
    /\ output.unmatched_files = <<>>
    /\ output.report = None

FailedEmitsNothing ==
    /\ pc = "failed" => NothingEmitted
    /\ ~NothingEmitted => pc \in {"saved", "done"}

MissingFileFatal == []FailedEmitsNothing /\ [][pc # "failed"]_vars

\* the load of the third phase failed after records of the first two phases
\* had been merged
MissingFileFatalWitness ==
    /\ pc = "failed"
    /\ NothingEmitted
    /\ merged_books # <<>>
    /\ {processed[k].source : k \in DOMAIN processed} = {"awards", "google_books"}

(***************************************************************************)
(* C19  Normalization is idempotent.  As claimed: for every text x,        *)
(* normalize_text(normalize_text(x)) = normalize_text(x).                  *)
(***************************************************************************)
NormalizedTwice == op = "normalize_text" /\ Len(args) = 2 /\ ret # None

NormalizationIdempotent == NormalizedTwice => ret[1] = args[2]

(***************************************************************************)
(* C20  Normalization strips at most one leading article.  As claimed:     *)
(* normalize_text lowercases and trims the text, removes one of "the ",    *)
(* "a ", "an " if the text starts with it and nothing further, then drops  *)
(* the special characters and collapses the white space; a second article  *)
(* that follows the first stays in the output.                             *)
(***************************************************************************)
LeadingArticles(s) == {n \in DOMAIN Articles : StartsWith(s, Articles[n])}

\* the text without the one article it starts with, if it starts with one
WithoutOneArticle(s) ==
    IF LeadingArticles(s) = {} THEN s
    ELSE StripArticle(s, Articles[CHOOSE n \in LeadingArticles(s) : TRUE])

NormalizedOnce == op = "normalize_text" /\ Len(args) = 1 /\ ret # None

StripsOneArticle ==
    NormalizedOnce =>
        ret[1] = IF args[1] = <<>> THEN <<>>
                 ELSE JoinSplit(KeepAlnumSpace(WithoutOneArticle(Strip(Lower(args[1])))))

(***************************************************************************)
(* C21  Similarity is symmetric.  As claimed: for all strings a and b,     *)
(* calculate_similarity(a, b) = calculate_similarity(b, a).  The scores    *)
(* are fractions and are compared by cross-multiplication.                 *)
(***************************************************************************)
SameScore(s, t) == s[1] * t[2] = t[1] * s[2]

CalledBothWays == op = "calculate_similarity" /\ Len(ret) = 2

SimilaritySymmetric == CalledBothWays => SameScore(ret[1], ret[2])

(***************************************************************************)
(* C22  Similarity range and boundary values.  For all strings a and b the *)
(* score is between 0.0 and 1.0; it is 0.0 whenever a or b is empty, both  *)
(* empty included, and 1.0 for a non-empty a compared with itself.         *)
(***************************************************************************)
SimilarityCalled == op = "calculate_similarity" /\ ret # None

SimilarityRange ==
    SimilarityCalled =>
        /\ ret[1][2] > 0
        /\ 0 <= ret[1][1] /\ ret[1][1] <= ret[1][2]
        /\ (args[1] = <<>> \/ args[2] = <<>>) => ret[1][1] = 0
        /\ (args[1] = args[2] /\ args[1] # <<>>) => ret[1][1] = ret[1][2]

\* a three-letter string compared with itself scores 1.0
SimilarityRangeWitness ==
    /\ SimilarityCalled
    /\ args = <<<<"a", "b", "a">>, <<"a", "b", "a">>>>
    /\ ret[1] = <<6, 6>>

(***************************************************************************)
(* C23  Report tally of records with any ISBN.  As claimed: in every final *)
(* collection the report's books_with_isbn equals the number of canonical  *)
(* records whose isbn_all is not empty, records whose only identifiers are *)
(* neither 10 nor 13 characters long included.                             *)
(***************************************************************************)
Reported == pc = "done" /\ output.report # None

WithAnyIsbn == {i \in DOMAIN merged_books : merged_books[i].data.isbn_all # <<>>}

ReportCountsAnyIsbn ==
    Reported => output.report[1].data_quality.books_with_isbn = Cardinality(WithAnyIsbn)

(***************************************************************************)
(* C24  Set-like fields stay duplicate-free.  In every reachable state the *)
(* isbn_all, categories and bestseller_dates of every canonical record     *)
(* hold no element twice, and a step only appends to them: what a record   *)
(* held before the step is, in the same order, the beginning of what it    *)
(* holds after it.                                                         *)
(***************************************************************************)
NoRepeats(list) == \A m, n \in DOMAIN list : list[m] = list[n] => m = n

DuplicateFree ==
    \A i \in DOMAIN merged_books :
        /\ NoRepeats(merged_books[i].data.isbn_all)
        /\ NoRepeats(merged_books[i].data.categories)
        /\ NoRepeats(merged_books[i].data.bestseller_dates)

OnlyAppended ==
    \A i \in DOMAIN merged_books : \A j \in DOMAIN merged_books' :
        serial'[j] = serial[i] =>
            /\ IsPrefix(merged_books[i].data.isbn_all, merged_books'[j].data.isbn_all)
            /\ IsPrefix(merged_books[i].data.categories, merged_books'[j].data.categories)
            /\ IsPrefix(merged_books[i].data.bestseller_dates, merged_books'[j].data.bestseller_dates)

SetLikeFields == []DuplicateFree /\ [][OnlyAppended]_vars

\* a record with categories Fiction, Drama has taken a catalog record that
\* lists Drama twice and brings a second identifier, then a bestseller record
SetLikeFieldsWitness ==
    /\ Len(processed) = 3
    /\ processed[2].source = "google_books"
    /\ processed[2].how = "isbn"
    /\ Get(processed[2].entry, "categories", <<>>) = <<"Drama", "Drama">>
    /\ Latest.source = "nyt_bestsellers"
    /\ Latest.book_id = processed[2].book_id
    /\ Latest.entry.bestseller_date = Some("2023-01-01")
    /\ \E i \in DOMAIN merged_books :
          /\ merged_books[i].book_id = Latest.book_id
          /\ merged_books[i].data.categories = <<"Fiction", "Drama">>
          /\ merged_books[i].data.bestseller_dates = <<"2023-01-01">>
          /\ Len(merged_books[i].data.isbn_all) = 2

(***************************************************************************)
(* C25  Sentinel identifiers are inert.  A null, empty or "N/A" identifier *)
(* is never added to an isbn_all and never resolves a record: in every     *)
(* reachable state no isbn_all holds "N/A" or the empty string, a record   *)
(* is matched by identifier only through an identifier that is none of     *)
(* these and that some canonical record held, and a record all of whose    *)
(* identifiers are sentinels or already present leaves isbn_all and the    *)
(* two primary ISBNs of the canonical record it is merged into unchanged.  *)
(***************************************************************************)
Sentinels == {"", "N/A"}

NoSentinelStored ==
    \A i \in DOMAIN merged_books :
        Range(merged_books[i].data.isbn_all) \cap Sentinels = {}

SentinelsInert ==
    Stepped =>
        LET r == processed'[Len(processed')]
            usable == Range(CarriedIsbns(r)) \ Sentinels
        IN  /\ r.how = "isbn" => \E isbn \in usable : Holders(merged_books, isbn) # {}
            /\ \A i \in DOMAIN merged_books : \A j \in DOMAIN merged_books' :
                  (/\ serial'[j] = serial[i]
                   /\ r.serial = serial[i]
                   /\ usable \subseteq Range(merged_books[i].data.isbn_all))
                  => /\ merged_books'[j].data.isbn_all = merged_books[i].data.isbn_all
                     /\ merged_books'[j].data.isbn_13 = merged_books[i].data.isbn_13
                     /\ merged_books'[j].data.isbn_10 = merged_books[i].data.isbn_10

SentinelIdentifiers == []NoSentinelStored /\ [][SentinelsInert]_vars

\* two records that carry only sentinels were not linked by identifier, and a
\* third that carries "N/A" and nothing else was merged by title and author
\* without touching the identifiers
SentinelIdentifiersWitness ==
    /\ Len(processed) = 3
    /\ processed[1].source = "openlibrary" /\ processed[1].how = "created"
    /\ CarriedIsbns(processed[1]) = <<"N/A", "">>
    /\ processed[2].source = "nyt_bestsellers" /\ processed[2].how = "created"
    /\ CarriedIsbns(processed[2]) = <<"N/A", "N/A">>
    /\ processed[3].source = "nyt_bestsellers" /\ processed[3].how = "fuzzy"
    /\ CarriedIsbns(processed[3]) = <<"N/A", "N/A">>
    /\ Len(merged_books) = 2
    /\ \A i \in DOMAIN merged_books : merged_books[i].data.isbn_all = <<>>

(***************************************************************************)
(* C26  Run to completion.  As claimed: once the input files load, no step *)
(* of the run raises, whatever the field values of the records are (a null *)
(* or missing year, rank or weeks_on_list included), and the run ends with *)
(* every loaded record processed once and the merged collection and the    *)
(* report emitted.                                                         *)
(***************************************************************************)
LoadedRecords ==
    stats.awards.total + stats.google_books.total + stats.openlibrary.total
        + stats.nyt_bestsellers.total

RunsToCompletion ==
    /\ pc # "raised"
    /\ pc = "done" => /\ Len(processed) = LoadedRecords
                      /\ output.merged_file # None
                      /\ output.report # None

(***************************************************************************)
(* C27  An ISBN identifies at most one canonical record.  As claimed: in   *)
(* every reachable state no ISBN is an element of the isbn_all of two      *)
(* different canonical records.                                            *)
(***************************************************************************)
IsbnHeldOnce ==
    \A i, j \in DOMAIN merged_books :
        Range(merged_books[i].data.isbn_all) \cap Range(merged_books[j].data.isbn_all) # {}
            => i = j

(***************************************************************************)
(* C28  Unmatched means not merged.  As claimed: a source record that is   *)
(* placed in its source's unmatched collection is not used to create or    *)
(* extend a canonical record.                                              *)
(***************************************************************************)
PlacedInUnmatched(source) == Len(unmatched_data'[source]) > Len(unmatched_data[source])

UnmatchedNotMerged ==
    [][Stepped =>
          LET r == processed'[Len(processed')]
          IN  PlacedInUnmatched(r.source) => r.how \notin {"created", "isbn", "fuzzy"}]_vars

(***************************************************************************)
(* C29  Per-source accounting is complete.  As claimed: at the end of      *)
(* every run the report's matched count plus its unmatched count equals    *)
(* its total number of entries, for each of the four sources.              *)
(***************************************************************************)
AccountingComplete ==
    Reported =>
        \A source \in Range(Sources) :
            LET counts == output.report[1].source_datasets[source]
            IN  counts.matched + counts.unmatched = counts.total_entries

(***************************************************************************)
(* C30  The unmatched counter agrees with the unmatched collection.  As    *)
(* claimed: in every reachable state, for each source the unmatched        *)
(* counter of the statistics equals the number of records in the source's  *)
(* unmatched collection, so that the report's unmatched figure equals the  *)
(* total_unmatched written with the unmatched file.                        *)
(***************************************************************************)
UnmatchedCounterAgrees ==
    \A source \in Range(Sources) :
        /\ stats[source].unmatched = Len(unmatched_data[source])
        /\ (Reported /\ source \in DOMAIN output.unmatched_files) =>
              output.report[1].source_datasets[source].unmatched
                  = output.unmatched_files[source].total_unmatched

====
